---------------------------- MODULE Spec2Model ----------------------------
(***************************************************************************)
(* Model of the perftools analysis engine of adewale/olsen:                *)
(*   src/perftools/analyze_filetype.py   (selector, stage aggregator, CLI) *)
(*   src/perftools/compare_datasets.py   (comparator)                      *)
(*                                                                         *)
(* Representation.                                                         *)
(*  - Text is a sequence of one-character strings, so that upper(),        *)
(*    startswith(), endswith() and `in` are computed, not assumed.         *)
(*  - A Python float is an exact rational <<num, den>> in lowest terms     *)
(*    with den > 0.  Rounding of IEEE doubles is not modelled.             *)
(*  - x ** 0.5 is kept exact as Root(q), "the non-negative real whose      *)
(*    square is q"; such values are compared through their squares.        *)
(*  - A raised exception is a value of the field/variable exc.             *)
(***************************************************************************)
EXTENDS Integers, Sequences, FiniteSets, TLC

VARIABLES
    pc,             \* control position of the running program / call
    argv,           \* command line of analyze_filetype.py (after argv[0])
    args,           \* argparse.Namespace produced by parse_args
    call,           \* the arguments main passes to filter_photos
    detailed,       \* data['detailed']: the loaded PhotoRecords
    photos,         \* the records handed to analyze_photos
    report,         \* what analyze_photos printed (and what it raised)
    selected,       \* results of direct filter_photos calls, by (pattern, mode)
    sorted_values,  \* argument of get_percentile
    percentile,     \* argument of get_percentile
    values,         \* argument of coefficient_of_variation
    result,         \* value returned by the pure function under call
    exc,            \* the exception that ended the program ("none" if none)
    small,          \* first dataset given to compare_summaries
    large,          \* second dataset given to compare_summaries
    comparison      \* reports of compare_summaries, by argument order

vars == <<pc, argv, args, call, detailed, photos, report, selected,
          sorted_values, percentile, values, result, exc, small, large,
          comparison>>

-----------------------------------------------------------------------------
(* Bounds of the explored inputs *)

MaxLen == 3
MaxVal == 3
MaxPhotos == 2
MaxMs == 2

-----------------------------------------------------------------------------
(* Exact rationals standing for Python floats *)

Abs(x) == IF x < 0 THEN -x ELSE x

RECURSIVE GCD(_, _)
GCD(a, b) == IF b = 0 THEN a ELSE GCD(b, a % b)

Rat(n, d) ==
    LET g == GCD(Abs(n), d)
    IN  <<n \div g, d \div g>>

Zero == Rat(0, 1)
FromInt(n) == Rat(n, 1)
IsZero(p) == p[1] = 0
RatNeg(p) == <<-p[1], p[2]>>
RatAdd(p, q) ==
    LET g == GCD(p[2], q[2])
    IN  Rat(p[1] * (q[2] \div g) + q[1] * (p[2] \div g), (p[2] \div g) * q[2])
RatSub(p, q) == RatAdd(p, RatNeg(q))
RatMul(p, q) ==
    LET g1 == GCD(Abs(p[1]), q[2])
        g2 == GCD(Abs(q[1]), p[2])
    IN  Rat((p[1] \div g1) * (q[1] \div g2), (p[2] \div g2) * (q[2] \div g1))
\* p / q for q > 0 (every caller has excluded q = 0 or raises before)
RatDiv(p, q) == RatMul(p, <<q[2], q[1]>>)
RatLeq(p, q) == p[1] * q[2] <= q[1] * p[2]
RatLt(p, q) == p[1] * q[2] < q[1] * p[2]

\* x ** 0.5 for x >= 0, kept exact
Root(q) == [sq |-> q]
RootLeq(a, b) == RatLeq(a.sq, b.sq)
RootLt(a, b) == RatLt(a.sq, b.sq)

RECURSIVE SumSeq(_)
SumSeq(s) == IF s = <<>> THEN 0 ELSE s[1] + SumSeq(Tail(s))

Min2(a, b) == IF a <= b THEN a ELSE b

-----------------------------------------------------------------------------
(* get_percentile, analyze_filetype.py lines 43-48.  The percentile is the *)
(* rational p[1]/p[2]; int(len * percentile) truncates a non-negative      *)
(* product, i.e. takes its floor.                                          *)

\* variant ranking over n-1 intervals: int((len - 1) * percentile)
get_percentile_nminus1(sv, p) ==
    IF sv = <<>> THEN 0
    ELSE LET idx == ((Len(sv) - 1) * p[1]) \div p[2]
         IN  sv[Min2(idx, Len(sv) - 1) + 1]

get_percentile(sv, p) ==
    IF sv = <<>> THEN 0
    ELSE LET idx == (Len(sv) * p[1]) \div p[2]
         IN  sv[Min2(idx, Len(sv) - 1) + 1]

Half == <<1, 2>>
P95 == <<19, 20>>

\* One row of the DISTRIBUTION STATS table, lines 125-128:
\* sorted[0], get_percentile(.., 0.5), get_percentile(.., 0.95), sorted[-1]
distribution_row(name, sv) ==
    [name |-> name, min |-> sv[1], median |-> get_percentile(sv, Half),
     p95 |-> get_percentile(sv, P95), max |-> sv[Len(sv)]]


-----------------------------------------------------------------------------
(* coefficient_of_variation, analyze_filetype.py lines 31-40 *)

RECURSIVE SquaredDeviations(_, _)
SquaredDeviations(vs, mean) ==
    IF vs = <<>> THEN Zero
    ELSE LET d == RatSub(FromInt(vs[1]), mean)
         IN  RatAdd(RatMul(d, d), SquaredDeviations(Tail(vs), mean))

\* variant with the sample variance (divisor n - 1)
coefficient_of_variation_sample(vs) ==
    IF vs = <<>> \/ Len(vs) < 2 THEN Root(Zero)
    ELSE LET mean == Rat(SumSeq(vs), Len(vs))
         IN  IF IsZero(mean) THEN Root(Zero)
             ELSE LET variance == RatDiv(SquaredDeviations(vs, mean),
                                         FromInt(Len(vs) - 1))
                  IN  Root(RatMul(RatDiv(variance, RatMul(mean, mean)),
                                  FromInt(100 * 100)))

coefficient_of_variation(vs) ==
    IF vs = <<>> \/ Len(vs) < 2 THEN Root(Zero)
    ELSE LET mean == Rat(SumSeq(vs), Len(vs))
         IN  IF IsZero(mean) THEN Root(Zero)
             ELSE LET variance == RatDiv(SquaredDeviations(vs, mean),
                                         FromInt(Len(vs)))
                      \* std_dev = variance ** 0.5; (std_dev / mean) * 100
                  IN  Root(RatMul(RatDiv(variance, RatMul(mean, mean)),
                                  FromInt(100 * 100)))

-----------------------------------------------------------------------------
(* Text: str.upper, str.startswith, str.endswith, `in` *)

LowerToUpper ==
    [a |-> "A", b |-> "B", c |-> "C", d |-> "D", e |-> "E", f |-> "F",
     g |-> "G", h |-> "H", i |-> "I", j |-> "J", k |-> "K", l |-> "L",
     m |-> "M", n |-> "N", o |-> "O", p |-> "P", q |-> "Q", r |-> "R",
     s |-> "S", t |-> "T", u |-> "U", v |-> "V", w |-> "W", x |-> "X",
     y |-> "Y", z |-> "Z"]

UpperChar(ch) == IF ch \in DOMAIN LowerToUpper THEN LowerToUpper[ch] ELSE ch

Upper(s) == [i \in 1..Len(s) |-> UpperChar(s[i])]

StartsWith(s, prefix) ==
    /\ Len(prefix) <= Len(s)
    /\ SubSeq(s, 1, Len(prefix)) = prefix

EndsWith(s, suffix) ==
    /\ Len(suffix) <= Len(s)
    /\ SubSeq(s, Len(s) - Len(suffix) + 1, Len(s)) = suffix

\* sub in s
Contains(sub, s) ==
    \E i \in 1..(Len(s) - Len(sub) + 1) : SubSeq(s, i, i + Len(sub) - 1) = sub

\* Python values that args.pattern can hold
Str(s) == [kind |-> "str", v |-> s]
Bool(b) == [kind |-> "bool", v |-> b]
None == [kind |-> "None", v |-> FALSE]

\* bool(x) as `if x` evaluates it
Truthy(x) ==
    CASE x.kind = "str" -> x.v # <<>>
      [] x.kind = "bool" -> x.v
      [] OTHER -> FALSE

-----------------------------------------------------------------------------
(* filter_photos, analyze_filetype.py lines 21-28.                         *)
(* Returns [exc, photos]: `pattern in p['FilePath']` raises TypeError for  *)
(* a non-str pattern, startswith raises AttributeError for a non-str one.  *)

\* variant comparing the raw FilePath with the upper-cased extension
filter_photos_raw_path(recs, pattern, use_pattern) ==
    IF Truthy(use_pattern)
    THEN IF recs = <<>> THEN [exc |-> "none", photos |-> <<>>]
         ELSE IF pattern.kind # "str" THEN [exc |-> "TypeError", photos |-> <<>>]
         ELSE LET Test(p) == Contains(pattern.v, p.FilePath)
              IN  [exc |-> "none", photos |-> SelectSeq(recs, Test)]
    ELSE IF pattern.kind # "str" THEN [exc |-> "AttributeError", photos |-> <<>>]
         ELSE LET ext == IF StartsWith(pattern.v, <<".">>) THEN pattern.v
                         ELSE <<".">> \o pattern.v
                  Test(p) == EndsWith(p.FilePath, Upper(ext))
              IN  [exc |-> "none", photos |-> SelectSeq(recs, Test)]

filter_photos(recs, pattern, use_pattern) ==
    IF Truthy(use_pattern)
    THEN IF recs = <<>> THEN [exc |-> "none", photos |-> <<>>]
         ELSE IF pattern.kind # "str" THEN [exc |-> "TypeError", photos |-> <<>>]
         ELSE LET Test(p) == Contains(pattern.v, p.FilePath)
              IN  [exc |-> "none", photos |-> SelectSeq(recs, Test)]
    ELSE IF pattern.kind # "str" THEN [exc |-> "AttributeError", photos |-> <<>>]
         ELSE LET ext == IF StartsWith(pattern.v, <<".">>) THEN pattern.v
                         ELSE <<".">> \o pattern.v
                  Test(p) == EndsWith(Upper(p.FilePath), Upper(ext))
              IN  [exc |-> "none", photos |-> SelectSeq(recs, Test)]


-----------------------------------------------------------------------------
(* analyze_photos, analyze_filetype.py lines 51-144.                       *)
(* The value is [out, exc]: the lines printed, section by section, and the *)
(* exception that ended the call.  Number formatting is not modelled: a    *)
(* printed value is the value itself.                                      *)

\* rows of the `stages` list, lines 94-103: (name, field averaged)
stages ==
    << <<"Hash", "HashTime">>,
       <<"Metadata", "MetadataTime">>,
       <<"Image Decode", "ImageDecodeTime">>,
       <<"Thumbnails", "ThumbnailTime">>,
       <<"Color Extract", "ColorTime">>,
       <<"Perceptual Hash", "PerceptualHashTime">>,
       <<"Inference", "InferenceTime">>,
       <<"Database", "DatabaseTime">> >>

\* rows of the `variability` list, lines 133-141: (name, field measured)
variability_stages ==
    << <<"Hash", "HashTime">>,
       <<"Metadata", "MetadataTime">>,
       <<"Image Decode", "ImageDecodeTime">>,
       <<"Thumbnails", "ThumbnailTime">>,
       <<"Color Extract", "ColorTime">>,
       <<"Perceptual Hash", "PerceptualHashTime">>,
       <<"Database", "DatabaseTime">> >>

\* rows of the distribution table, lines 118-128
distribution_stages ==
    << <<"Image Decode", "ImageDecodeTime">>,
       <<"Thumbnails", "ThumbnailTime">>,
       <<"Color Extract", "ColorTime">>,
       <<"TOTAL", "TotalTime">> >>

\* [p[field] for p in recs]
Column(recs, field) == [i \in 1..Len(recs) |-> recs[i][field]]

\* sorted(xs) of floats: ascending, stable
InsertAscending(t, x) ==
    LET k == Cardinality({i \in 1..Len(t) : RatLeq(t[i], x)})
    IN  SubSeq(t, 1, k) \o <<x>> \o SubSeq(t, k + 1, Len(t))

RECURSIVE sorted_ascending(_)
sorted_ascending(xs) ==
    IF xs = <<>> THEN <<>>
    ELSE InsertAscending(sorted_ascending(SubSeq(xs, 1, Len(xs) - 1)), xs[Len(xs)])

\* insertion keeping rows ascending by cv, stable
InsertByCvAscending(t, x) ==
    LET k == Cardinality({i \in 1..Len(t) : RootLeq(t[i].cv, x.cv)})
    IN  SubSeq(t, 1, k) \o <<x>> \o SubSeq(t, k + 1, Len(t))

RECURSIVE SortedByCvAscending(_)
SortedByCvAscending(rows) ==
    IF rows = <<>> THEN <<>>
    ELSE InsertByCvAscending(SortedByCvAscending(SubSeq(rows, 1, Len(rows) - 1)),
                             rows[Len(rows)])

Reverse(s) == [i \in 1..Len(s) |-> s[Len(s) + 1 - i]]

\* insertion keeping rows descending by cv, a new row after its equals
InsertByCvDescending(t, x) ==
    LET k == Cardinality({i \in 1..Len(t) : RootLeq(x.cv, t[i].cv)})
    IN  SubSeq(t, 1, k) \o <<x>> \o SubSeq(t, k + 1, Len(t))

\* variant: list(reversed(sorted(rows, key=cv))), which reverses equal rows
sorted_by_cv_reversed(rows) == Reverse(SortedByCvAscending(rows))

\* sorted(rows, key=lambda x: x[1], reverse=True): descending, and stable
\* (Python keeps the original order of rows with equal keys under reverse)
RECURSIVE sorted_by_cv_descending(_)
sorted_by_cv_descending(rows) ==
    IF rows = <<>> THEN <<>>
    ELSE InsertByCvDescending(
             sorted_by_cv_descending(SubSeq(rows, 1, Len(rows) - 1)),
             rows[Len(rows)])

\* the report before anything is printed
Blank ==
    [no_match |-> FALSE, title |-> <<>>, summary |-> <<>>, throughput |-> <<>>,
     timings |-> <<>>, total |-> <<>>, distribution |-> <<>>,
     variability |-> <<>>]

\* lines 57-144, for n = len(photos) >= 1
analyze_body(recs, label) ==
    LET n == Len(recs)
        total_time == SumSeq(Column(recs, "TotalTime"))
        total_bytes == SumSeq(Column(recs, "FileSize"))
        \* sum / n / 1_000_000
        Avg(field) == RatDiv(Rat(SumSeq(Column(recs, field)), n), FromInt(1000000))
        avg_total == Avg("TotalTime")
        MB(b) == RatDiv(RatDiv(b, FromInt(1024)), FromInt(1024))
        head == [Blank EXCEPT
                   !.title = <<label, n>>,
                   !.summary = <<n, MB(FromInt(total_bytes)),
                                 MB(Rat(total_bytes, n))>>]
        TimingRow(st) ==
            LET time_ms == Avg(st[2])
            IN  [name |-> st[1], time_ms |-> time_ms,
                 pct |-> IF RatLt(Zero, avg_total)
                         THEN RatMul(RatDiv(time_ms, avg_total), FromInt(100))
                         ELSE Zero]
        Millis(field) ==
            LET col == Column(recs, field)
            IN  [i \in 1..n |-> Rat(col[i], 1000000)]
        DistRow(st) == distribution_row(st[1], sorted_ascending(Millis(st[2])))
        CvRow(st) == [name |-> st[1],
                      cv |-> coefficient_of_variation(Column(recs, st[2]))]
    IN  IF total_time = 0
        THEN \* line 89 divides by total_time/1_000_000_000
             [out |-> head, exc |-> "ZeroDivisionError"]
        ELSE [out |-> [head EXCEPT
                  !.throughput = <<RatDiv(MB(FromInt(total_bytes)),
                                          Rat(total_time, 1000000000))>>,
                  !.timings = [i \in 1..Len(stages) |-> TimingRow(stages[i])],
                  !.total = <<avg_total>>,
                  !.distribution = [i \in 1..Len(distribution_stages) |->
                                        DistRow(distribution_stages[i])],
                  !.variability = sorted_by_cv_descending(
                                      [i \in 1..Len(variability_stages) |->
                                           CvRow(variability_stages[i])])],
              exc |-> "none"]

\* variant without the `if not photos` guard: line 76 divides by n = 0
analyze_photos_unguarded(recs, label) ==
    IF recs = <<>>
    THEN [out |-> [Blank EXCEPT !.title = <<label, 0>>], exc |-> "ZeroDivisionError"]
    ELSE analyze_body(recs, label)

analyze_photos(recs, label) ==
    IF recs = <<>>
    THEN [out |-> [Blank EXCEPT !.no_match = TRUE], exc |-> "none"]
    ELSE analyze_body(recs, label)


-----------------------------------------------------------------------------
(* main of analyze_filetype.py, lines 147-174 *)

LongFlag == <<"-", "-", "p", "a", "t", "t", "e", "r", "n">>
ShortFlag == <<"-", "p">>
IsFlag(tok) == tok \in {LongFlag, ShortFlag}

\* parser.parse_args(), lines 163-168.  The positional `pattern` and the
\* store_true option --pattern/-p share the destination `pattern`: each
\* token, left to right, overwrites it.  The value is [ok, ns].
RECURSIVE ParseTokens(_, _, _)
ParseTokens(toks, ns, npos) ==
    IF toks = <<>>
    THEN [ok |-> npos = 2, ns |-> ns]
    ELSE IF IsFlag(toks[1])
         THEN ParseTokens(Tail(toks), [ns EXCEPT !.pattern = Bool(TRUE)], npos)
         ELSE IF npos = 0
              THEN ParseTokens(Tail(toks),
                               [ns EXCEPT !.perfstats_file = Str(toks[1])], 1)
              ELSE IF npos = 1
                   THEN ParseTokens(Tail(toks),
                                    [ns EXCEPT !.pattern = Str(toks[1])], 2)
                   ELSE [ok |-> FALSE, ns |-> ns]

parse_args(toks) ==
    ParseTokens(toks, [perfstats_file |-> None, pattern |-> None], 0)

\* str(x) inside an f-string
Format(x) ==
    CASE x.kind = "str" -> x.v
      [] x.kind = "bool" -> IF x.v THEN <<"T", "r", "u", "e">>
                            ELSE <<"F", "a", "l", "s", "e">>
      [] OTHER -> <<"N", "o", "n", "e">>

\* line 173
Label(ns) ==
    IF Truthy(ns.pattern)
    THEN Format(ns.pattern) \o <<" ", "f", "i", "l", "e", "s">>
    ELSE Format(ns.pattern) \o <<" ", "p", "a", "t", "t", "e", "r", "n">>

-----------------------------------------------------------------------------
(* compare_summaries, compare_datasets.py lines 19-74.                     *)
(* The value is [out, exc]; a summary maps each key to a number.           *)

\* the `stages` list, lines 35-44: (name, summary key)
compare_stages ==
    << <<"Hash", "AvgHashMs">>,
       <<"Metadata", "AvgMetadataMs">>,
       <<"Image Decode", "AvgImageDecodeMs">>,
       <<"Thumbnails", "AvgThumbnailMs">>,
       <<"Color Extract", "AvgColorMs">>,
       <<"Perceptual Hash", "AvgPerceptualHashMs">>,
       <<"Inference", "AvgInferenceMs">>,
       <<"Database", "AvgDatabaseMs">> >>

\* ((large / small) - 1) * 100
PctChange(small_v, large_v) ==
    RatMul(RatSub(RatDiv(FromInt(large_v), FromInt(small_v)), FromInt(1)),
           FromInt(100))

\* variant: the breakdown delta taken as a magnitude
BreakdownDeltaAbs(small_pct, large_pct) ==
    LET d == RatSub(large_pct, small_pct)
    IN  <<Abs(d[1]), d[2]>>

\* line 51
BreakdownDelta(small_pct, large_pct) == RatSub(large_pct, small_pct)

compare_summaries(small_ds, large_ds) ==
    LET small_summary == small_ds.summary
        large_summary == large_ds.summary
        head == <<small_summary.ProcessedPhotos, large_summary.ProcessedPhotos,
                  RatDiv(RatDiv(FromInt(small_summary.TotalBytes), FromInt(1024)),
                         FromInt(1024)),
                  RatDiv(RatDiv(FromInt(large_summary.TotalBytes), FromInt(1024)),
                         FromInt(1024)),
                  small_summary.AvgThroughputMBps, large_summary.AvgThroughputMBps>>
        small_total == small_summary.AvgTotalMs
        large_total == large_summary.AvgTotalMs
        Pct(summary, key) ==
            RatMul(RatDiv(FromInt(summary[key]), FromInt(summary.AvgTotalMs)),
                   FromInt(100))
        BreakdownRow(st) ==
            LET small_pct == Pct(small_summary, st[2])
                large_pct == Pct(large_summary, st[2])
            IN  [name |-> st[1], small_pct |-> small_pct, large_pct |-> large_pct,
                 delta |-> BreakdownDelta(small_pct, large_pct)]
        TimingRow(st) ==
            LET small_ms == small_summary[st[2]]
                large_ms == large_summary[st[2]]
            IN  [name |-> st[1], small_ms |-> small_ms, large_ms |-> large_ms,
                 delta |-> large_ms - small_ms,
                 pct_change |-> IF small_ms > 0 THEN PctChange(small_ms, large_ms)
                                ELSE Zero]
    IN  IF small_total = 0 \/ large_total = 0
        THEN \* lines 49-50 divide by AvgTotalMs in the first iteration
             [out |-> [head |-> head, breakdown |-> <<>>, timings |-> <<>>,
                       total |-> <<>>],
              exc |-> "ZeroDivisionError"]
        ELSE [out |-> [head |-> head,
                       breakdown |-> [i \in 1..Len(compare_stages) |->
                                          BreakdownRow(compare_stages[i])],
                       timings |-> [i \in 1..Len(compare_stages) |->
                                        TimingRow(compare_stages[i])],
                       \* lines 70-74; small_total # 0 here
                       total |-> <<[small_ms |-> small_total,
                                    large_ms |-> large_total,
                                    delta |-> large_total - small_total,
                                    pct_change |->
                                        PctChange(small_total, large_total)]>>],
              exc |-> "none"]


-----------------------------------------------------------------------------
(* Inputs *)

\* a PhotoRecord with the fields analyze_photos reads (lines 64-73); the
\* eight stage durations are spread over three values, TotalTime is their sum
Photo(path, x, y, z) ==
    [FilePath |-> path, FileSize |-> 1024,
     HashTime |-> x, MetadataTime |-> y, ImageDecodeTime |-> z,
     ThumbnailTime |-> x, ColorTime |-> y, PerceptualHashTime |-> z,
     InferenceTime |-> x, DatabaseTime |-> y,
     TotalTime |-> 3 * x + 3 * y + 2 * z]

PhotoDNG == <<"p", "h", "o", "t", "o", ".", "D", "N", "G">>
ADng == <<"a", ".", "d", "n", "g">>
L10Dng == <<"L", "1", "0", ".", "D", "n", "g">>
BareDng == <<"d", "n", "g">>
BJpg == <<"b", ".", "j", "p", "g">>

\* records that differ in FilePath, for the selector
FilePhotos ==
    {Photo(PhotoDNG, 1, 2, 1), Photo(ADng, 3, 2, 3), Photo(L10Dng, 0, 1, 0),
     Photo(BareDng, 0, 0, 0), Photo(BJpg, 1, 1, 3)}

TimeVals == {0, 1, 3}

\* records that differ in their timings, for the aggregator
TimedPhotos == {Photo(ADng, x, y, z) : x \in TimeVals, y \in TimeVals, z \in TimeVals}

ListsOver(S, maxLen) == UNION {[1..k -> S] : k \in 0..maxLen}

Dng == <<"d", "n", "g">>
DotDng == <<".", "d", "n", "g">>
DNG == <<"D", "N", "G">>
DotDNG == <<".", "D", "N", "G">>
Jpg == <<"j", "p", "g">>
L10 == <<"L", "1", "0">>
DngPatterns == {Dng, DotDng, DNG, DotDNG}

PerfstatsFile == <<"f">>

\* command lines: no flag, flag last, flag first, short flag in the middle,
\* and a missing positional
CommandLines ==
    UNION {{<<PerfstatsFile, pat>>, <<PerfstatsFile, pat, LongFlag>>,
            <<LongFlag, PerfstatsFile, pat>>, <<PerfstatsFile, ShortFlag, pat>>}
           : pat \in {DNG, DotDng, L10, <<>>}}
    \cup {<<PerfstatsFile>>}

\* direct calls filter_photos(detailed, pattern, use_pattern)
FilterCalls ==
    {<<pat, FALSE>> : pat \in DngPatterns \cup {Jpg}}
    \cup {<<L10, TRUE>>, <<DNG, TRUE>>}

SortedLists ==
    {sv \in ListsOver(0..MaxVal, MaxLen) :
        \A i \in 1..(Len(sv) - 1) : sv[i] <= sv[i + 1]}

TenValues == [i \in 1..10 |-> i]

Percentiles == {<<0, 1>>, <<1, 4>>, Half, <<3, 4>>, P95, <<1, 1>>}

ValueLists == ListsOver(0..MaxVal, MaxLen) \cup {<<10, 10, 10>>, <<0, 10>>}

\* a dataset whose summary has every key compare_summaries reads
Dataset(total, fast, slow) ==
    [summary |->
        [ProcessedPhotos |-> 10, TotalBytes |-> 10 * 1024 * 1024,
         AvgThroughputMBps |-> FromInt(5), AvgTotalMs |-> total,
         AvgHashMs |-> fast, AvgMetadataMs |-> slow, AvgImageDecodeMs |-> slow,
         AvgThumbnailMs |-> slow, AvgColorMs |-> slow,
         AvgPerceptualHashMs |-> slow, AvgInferenceMs |-> fast,
         AvgDatabaseMs |-> slow]]

Datasets ==
    {Dataset(total, fast, slow) :
        total \in 0..MaxMs, fast \in 0..MaxMs, slow \in 0..MaxMs}

-----------------------------------------------------------------------------
(* State machine *)

NoArgs == [perfstats_file |-> None, pattern |-> None]
NoCall == [made |-> FALSE, pattern |-> None, use_pattern |-> None]
NotRun == [out |-> [head |-> <<>>, breakdown |-> <<>>, timings |-> <<>>,
                    total |-> <<>>],
           exc |-> "not run"]

\* python3 analyze_filetype.py <argv>, with the file's records in `detailed`
Init ==
    /\ pc = "main"
    /\ argv \in CommandLines
    /\ detailed \in ListsOver(FilePhotos, MaxPhotos)
    /\ args = NoArgs
    /\ call = NoCall
    /\ photos = <<>>
    /\ report = Blank
    /\ selected = {}
    /\ sorted_values = <<>>
    /\ percentile = <<0, 1>>
    /\ values = <<>>
    /\ result = [value |-> 0]
    /\ exc = "none"
    /\ small = Dataset(0, 0, 0)
    /\ large = Dataset(0, 0, 0)
    /\ comparison = [ab |-> NotRun, ba |-> NotRun]

\* line 168
ParseArgs ==
    /\ pc = "main"
    /\ LET r == parse_args(argv)
       IN  IF r.ok
           THEN /\ args' = r.ns
                /\ pc' = "load"
                /\ exc' = exc
           ELSE /\ args' = args
                /\ pc' = "exit"
                /\ exc' = "SystemExit"
    /\ UNCHANGED <<argv, call, detailed, photos, report, selected, sorted_values,
                   percentile, values, result, small, large, comparison>>

\* lines 170-171
FilterStep ==
    /\ pc = "load"
    /\ LET r == filter_photos(detailed, args.pattern, args.pattern)
       IN  /\ call' = [made |-> TRUE, pattern |-> args.pattern,
                       use_pattern |-> args.pattern]
           /\ photos' = r.photos
           /\ exc' = r.exc
           /\ pc' = IF r.exc = "none" THEN "analyze" ELSE "exit"
    /\ UNCHANGED <<argv, args, detailed, report, selected, sorted_values,
                   percentile, values, result, small, large, comparison>>

\* lines 173-174
AnalyzeStep ==
    /\ pc = "analyze"
    /\ LET r == analyze_photos(photos, Label(args))
       IN  /\ report' = r.out
           /\ exc' = r.exc
    /\ pc' = "exit"
    /\ UNCHANGED <<argv, args, call, detailed, photos, selected, sorted_values,
                   percentile, values, result, small, large, comparison>>

Next == ParseArgs \/ FilterStep \/ AnalyzeStep

Spec == Init /\ [][Next]_vars

\* analyze_photos called on a record list
InitAnalyze ==
    /\ pc = "analyze"
    /\ photos \in ListsOver(TimedPhotos, MaxPhotos)
    /\ args = [perfstats_file |-> Str(PerfstatsFile), pattern |-> Str(DotDng)]
    /\ argv = <<>>
    /\ call = NoCall
    /\ detailed = <<>>
    /\ report = Blank
    /\ selected = {}
    /\ sorted_values = <<>>
    /\ percentile = <<0, 1>>
    /\ values = <<>>
    /\ result = [value |-> 0]
    /\ exc = "none"
    /\ small = Dataset(0, 0, 0)
    /\ large = Dataset(0, 0, 0)
    /\ comparison = [ab |-> NotRun, ba |-> NotRun]

SpecAnalyze == InitAnalyze /\ [][AnalyzeStep]_vars

\* filter_photos called on one record list with several patterns
InitFilter ==
    /\ pc = "filter_photos"
    /\ detailed \in ListsOver(FilePhotos, MaxPhotos)
    /\ argv = <<>>
    /\ args = NoArgs
    /\ call = NoCall
    /\ photos = <<>>
    /\ report = Blank
    /\ selected = {}
    /\ sorted_values = <<>>
    /\ percentile = <<0, 1>>
    /\ values = <<>>
    /\ result = [value |-> 0]
    /\ exc = "none"
    /\ small = Dataset(0, 0, 0)
    /\ large = Dataset(0, 0, 0)
    /\ comparison = [ab |-> NotRun, ba |-> NotRun]

FilterPhotos ==
    /\ pc = "filter_photos"
    /\ \E c \in FilterCalls :
          /\ \A e \in selected : <<e.pattern, e.use_pattern>> # c
          /\ LET r == filter_photos(detailed, Str(c[1]), Bool(c[2]))
             IN  selected' = selected \cup
                     {[pattern |-> c[1], use_pattern |-> c[2],
                       exc |-> r.exc, photos |-> r.photos]}
    /\ UNCHANGED <<pc, argv, args, call, detailed, photos, report, sorted_values,
                   percentile, values, result, exc, small, large, comparison>>

SpecFilter == InitFilter /\ [][FilterPhotos]_vars

\* get_percentile called on a sorted list
InitPercentile ==
    /\ pc = "get_percentile"
    /\ sorted_values \in SortedLists \cup {TenValues}
    /\ percentile \in Percentiles
    /\ argv = <<>>
    /\ args = NoArgs
    /\ call = NoCall
    /\ detailed = <<>>
    /\ photos = <<>>
    /\ report = Blank
    /\ selected = {}
    /\ values = <<>>
    /\ result = [value |-> 0]
    /\ exc = "none"
    /\ small = Dataset(0, 0, 0)
    /\ large = Dataset(0, 0, 0)
    /\ comparison = [ab |-> NotRun, ba |-> NotRun]

GetPercentile ==
    /\ pc = "get_percentile"
    /\ result' = [value |-> get_percentile(sorted_values, percentile)]
    /\ pc' = "returned"
    /\ UNCHANGED <<argv, args, call, detailed, photos, report, selected,
                   sorted_values, percentile, values, exc, small, large,
                   comparison>>

\* one row of lines 125-128, on the sorted values of a stage (n >= 1)
DistributionRow ==
    /\ pc = "get_percentile"
    /\ sorted_values # <<>>
    /\ result' = distribution_row("stage", sorted_values)
    /\ pc' = "row_printed"
    /\ UNCHANGED <<argv, args, call, detailed, photos, report, selected,
                   sorted_values, percentile, values, exc, small, large,
                   comparison>>

NextPercentile == GetPercentile \/ DistributionRow

SpecPercentile == InitPercentile /\ [][NextPercentile]_vars

\* coefficient_of_variation called on a list
InitCV ==
    /\ pc = "coefficient_of_variation"
    /\ values \in ValueLists
    /\ argv = <<>>
    /\ args = NoArgs
    /\ call = NoCall
    /\ detailed = <<>>
    /\ photos = <<>>
    /\ report = Blank
    /\ selected = {}
    /\ sorted_values = <<>>
    /\ percentile = <<0, 1>>
    /\ result = [value |-> 0]
    /\ exc = "none"
    /\ small = Dataset(0, 0, 0)
    /\ large = Dataset(0, 0, 0)
    /\ comparison = [ab |-> NotRun, ba |-> NotRun]

CoefficientOfVariation ==
    /\ pc = "coefficient_of_variation"
    /\ result' = coefficient_of_variation(values)
    /\ pc' = "returned"
    /\ UNCHANGED <<argv, args, call, detailed, photos, report, selected,
                   sorted_values, percentile, values, exc, small, large,
                   comparison>>

SpecCV == InitCV /\ [][CoefficientOfVariation]_vars

\* compare_datasets.py run on two files, in either order
InitCompare ==
    /\ pc = "compare"
    /\ small \in Datasets
    /\ large \in Datasets
    /\ comparison = [ab |-> NotRun, ba |-> NotRun]
    /\ argv = <<>>
    /\ args = NoArgs
    /\ call = NoCall
    /\ detailed = <<>>
    /\ photos = <<>>
    /\ report = Blank
    /\ selected = {}
    /\ sorted_values = <<>>
    /\ percentile = <<0, 1>>
    /\ values = <<>>
    /\ result = [value |-> 0]
    /\ exc = "none"

\* main, lines 82-88, with argv = [small_file, large_file]
CompareForward ==
    /\ pc = "compare"
    /\ comparison.ab.exc = "not run"
    /\ comparison' = [comparison EXCEPT !.ab = compare_summaries(small, large)]
    /\ UNCHANGED <<pc, argv, args, call, detailed, photos, report, selected,
                   sorted_values, percentile, values, result, exc, small, large>>

\* main, lines 82-88, with argv = [large_file, small_file]
CompareBackward ==
    /\ pc = "compare"
    /\ comparison.ba.exc = "not run"
    /\ comparison' = [comparison EXCEPT !.ba = compare_summaries(large, small)]
    /\ UNCHANGED <<pc, argv, args, call, detailed, photos, report, selected,
                   sorted_values, percentile, values, result, exc, small, large>>

NextCompare == CompareForward \/ CompareBackward

SpecCompare == InitCompare /\ [][NextCompare]_vars


-----------------------------------------------------------------------------
(* Properties *)

HasFlag(toks) == \E i \in 1..Len(toks) : IsFlag(toks[i])
Positionals(toks) == SelectSeq(toks, LAMBDA tok : ~IsFlag(tok))

\* the records whose upper-cased FilePath has the upper-cased, dot-prefixed
\* pattern as its last characters, in their original order
DotNormalized(pat) == IF pat # <<>> /\ pat[1] = "." THEN pat ELSE <<".">> \o pat
HasSuffixIgnoringCase(path, suffix) ==
    \E k \in 0..Len(path) :
        /\ Len(path) - k = Len(suffix)
        /\ \A i \in 1..Len(suffix) : UpperChar(path[k + i]) = UpperChar(suffix[i])
RECURSIVE ExtensionMatches(_, _)
ExtensionMatches(recs, pat) ==
    IF recs = <<>> THEN <<>>
    ELSE (IF HasSuffixIgnoringCase(recs[1].FilePath, DotNormalized(pat))
          THEN <<recs[1]>> ELSE <<>>) \o ExtensionMatches(Tail(recs), pat)

\* C1: run without --pattern/-p, main calls filter_photos in extension mode
\* (use_pattern false) and keeps exactly the records whose FilePath ends,
\* case-insensitively, with the dot-normalized pattern; run with the flag, it
\* calls filter_photos in substring mode with the positional text as pattern.
C1_ModeFollowsFlag ==
    call.made =>
        IF HasFlag(argv)
        THEN /\ Truthy(call.use_pattern)
             /\ call.pattern = Str(Positionals(argv)[2])
        ELSE /\ ~Truthy(call.use_pattern)
             /\ exc = "none"
             /\ photos = ExtensionMatches(detailed, Positionals(argv)[2])

\* C2: a non-empty record list whose TotalTime values sum to 0 is analysed to
\* completion: no division error, throughput 0 or skipped, every stage's
\* percentage of total 0.
C2_ZeroTotalTimeCompletes ==
    (pc = "exit" /\ photos # <<>> /\ SumSeq(Column(photos, "TotalTime")) = 0) =>
        /\ exc = "none"
        /\ report.throughput \in {<<>>, <<Zero>>}
        /\ Len(report.timings) = Len(stages)
        /\ \A i \in 1..Len(report.timings) : report.timings[i].pct = Zero

\* the relative change the claim gives for a baseline a and a value b
IsRelativeChange(x, a, b) ==
    IF a = 0 THEN x = Zero
    ELSE x[1] * a = 100 * (b - a) * x[2]

\* C3: for two summaries with every key and non-negative values,
\* compare_summaries raises no division error; the relative change is 0 when
\* the baseline value is 0, for each stage key and for AvgTotalMs, and
\* (B/A - 1) * 100 otherwise.
C3_RelativeChangeZeroBaseline ==
    comparison.ab.exc # "not run" =>
        /\ comparison.ab.exc = "none"
        /\ Len(comparison.ab.out.timings) = Len(compare_stages)
        /\ \A i \in 1..Len(comparison.ab.out.timings) :
              LET row == comparison.ab.out.timings[i]
                  key == compare_stages[i][2]
              IN  IsRelativeChange(row.pct_change, small.summary[key],
                                   large.summary[key])
        /\ Len(comparison.ab.out.total) = 1
        /\ IsRelativeChange(comparison.ab.out.total[1].pct_change,
                            small.summary.AvgTotalMs, large.summary.AvgTotalMs)

\* C4: analyze_photos on an empty list prints only the no-match message and
\* returns: nothing is summed, averaged, ranked or measured, nothing raised.
C4_EmptyInputNoMatch ==
    (pc = "exit" /\ photos = <<>>) =>
        /\ exc = "none"
        /\ report.no_match
        /\ report.title = <<>>
        /\ report.summary = <<>>
        /\ report.throughput = <<>>
        /\ report.timings = <<>>
        /\ report.total = <<>>
        /\ report.distribution = <<>>
        /\ report.variability = <<>>

C4_Witness == pc = "exit" /\ photos = <<>> /\ report.no_match

\* C5: in extension mode filter_photos keeps exactly the records whose
\* upper-cased FilePath ends with the upper-cased, dot-prefixed pattern, in
\* the original order and without error (an empty list when none matches);
\* "dng", ".dng", "DNG" and ".DNG" select the same records.
C5_ExtensionModeSelection ==
    \A e \in selected :
        ~e.use_pattern =>
            /\ e.exc = "none"
            /\ e.photos = ExtensionMatches(detailed, e.pattern)
            /\ \A o \in selected :
                  (~o.use_pattern /\ e.pattern \in DngPatterns
                       /\ o.pattern \in DngPatterns) => o.photos = e.photos

C5_Witness ==
    /\ \A pat \in DngPatterns :
          \E e \in selected :
              /\ e.pattern = pat
              /\ ~e.use_pattern
              /\ Len(e.photos) = 1
              /\ e.photos[1].FilePath = PhotoDNG
    /\ Len(detailed) = 2
    /\ \E e \in selected : e.pattern = Jpg /\ ~e.use_pattern /\ e.photos = <<>>

\* floor(n * p) without division: the k with k <= n*p < k + 1
FloorOfProduct(n, p) ==
    CHOOSE k \in 0..n : k * p[2] <= n * p[1] /\ n * p[1] < (k + 1) * p[2]

C7_DeltasAreNegated ==
    (/\ comparison.ab.exc # "not run"
     /\ comparison.ba.exc # "not run"
     /\ small.summary.AvgTotalMs # 0
     /\ large.summary.AvgTotalMs # 0) =>
        LET ab == comparison.ab.out
            ba == comparison.ba.out
        IN  /\ comparison.ab.exc = "none"
            /\ comparison.ba.exc = "none"
            /\ Len(ab.breakdown) = Len(compare_stages)
            /\ Len(ba.breakdown) = Len(compare_stages)
            /\ \A i \in 1..Len(compare_stages) :
                  /\ ab.breakdown[i].delta = RatNeg(ba.breakdown[i].delta)
                  /\ ab.timings[i].delta = -ba.timings[i].delta
            /\ ab.total[1].delta = -ba.total[1].delta

C7_Witness ==
    /\ comparison.ab.exc = "none"
    /\ comparison.ba.exc = "none"
    /\ \E i \in 1..Len(compare_stages) :
          /\ RatLt(Zero, comparison.ab.out.breakdown[i].delta)
          /\ comparison.ab.out.timings[i].delta > 0
    /\ comparison.ab.out.total[1].delta < 0

RowNames(rows) == {rows[i].name : i \in 1..Len(rows)}

\* C8: for every non-empty record list, the stage names of the variability
\* rows are the stage names of the timing rows.
C8_VariabilityCoversStages ==
    (pc = "exit" /\ photos # <<>>) =>
        RowNames(report.variability) = RowNames(report.timings)

\* position of a stage name in the declaration order of `stages`
Declared(name) == CHOOSE i \in 1..Len(stages) : stages[i][1] = name

\* C9: the variability rows are in descending order of CV, and rows of equal
\* CV are in declaration order.
C9_VariabilityDescendingStable ==
    (pc = "exit" /\ exc = "none" /\ photos # <<>>) =>
        /\ Len(report.variability) = Len(variability_stages)
        /\ \A i \in 1..Len(report.variability) :
              \A j \in (i + 1)..Len(report.variability) :
                  LET a == report.variability[i]
                      b == report.variability[j]
                  IN  /\ RootLeq(b.cv, a.cv)
                      /\ a.cv = b.cv => Declared(a.name) < Declared(b.name)

C9_Witness ==
    /\ pc = "exit"
    /\ exc = "none"
    /\ \E i, j, k \in 1..Len(report.variability) :
          /\ i < j
          /\ j < k
          /\ report.variability[i].cv = report.variability[j].cv
          /\ RootLt(report.variability[k].cv, report.variability[j].cv)
          /\ RootLt(Root(Zero), report.variability[k].cv)

SumOfSquares(vs) == SumSeq([i \in 1..Len(vs) |-> vs[i] * vs[i]])

\* C10: coefficient_of_variation is population std dev / mean * 100 (variance
\* over n), 0 for fewer than two values or a zero mean; identical values give
\* 0 and [0, 10] gives 100.  With S the sum and Q the sum of squares,
\* CV^2 = 100^2 * (n*Q - S^2) / S^2.
C10_PopulationCV ==
    pc = "returned" =>
        LET n == Len(values)
            S == SumSeq(values)
        IN  /\ (n < 2 \/ S = 0) => result = Root(Zero)
            /\ (n >= 2 /\ S # 0) =>
                  result = Root(Rat(100 * 100 * (n * SumOfSquares(values) - S * S),
                                    S * S))
            /\ (\A i \in 1..n : values[i] = values[1]) => result = Root(Zero)
            /\ values = <<10, 10, 10>> => result = Root(Zero)
            /\ values = <<0, 10>> => result = Root(FromInt(100 * 100))

C10_Witness ==
    /\ pc = "returned"
    /\ values = <<0, 10>>
    /\ result = Root(FromInt(100 * 100))

=============================================================================
